---------------------------- MODULE Spec2Model ----------------------------
(***************************************************************************)
(* Model of src/charges/charge.py: Item, Receipt, batch_receipt and the    *)
(* charge loop of main.                                                    *)
(*                                                                         *)
(* Money.  Python floats are modelled as exact rationals <<n, d>> in units *)
(* of one cent (d > 0, lowest terms), so round(x, 2) is rounding to an     *)
(* integer.  A value that lies exactly half way between two cents is       *)
(* rounded by Python according to the binary float nearest to it, which    *)
(* can fall on either side; the variable tieUp holds that direction.       *)
(*                                                                         *)
(* Text.  A string is a sequence of tokens; TextLen gives its length in    *)
(* characters as the f-strings of the source produce it.  The text of an   *)
(* input item's note is one "txt" token of a given length.                 *)
(***************************************************************************)
EXTENDS Integers, Sequences, FiniteSets, TLC

\* ------------------------------------------------------------------ bounds
MaxItems  == 2      \* items of the input receipt
NameLen   == 5      \* len(receipt.name)
ShortNote == 4      \* len(item.note) of a short input note
LongNote  == 240    \* len(item.note) of a long input note
TipCents  == 10     \* total - subtotal of a receipt with tax/tip

\* ------------------------------------------------------- program constants
NoteCap == 250      \* the note-length cap of the bundling check

ME       == "Me"
EVERYONE == "Everyone"

\* ------------------------------------------------------------------ inputs
\* item amounts in cents, and the participant lists of the input items
Amounts   == {100, 101}
PartLists == { <<>>, <<"a">>, <<"b">>, <<"a", "b">>, <<ME, "a", "b">>,
               <<EVERYONE>>, <<"a", EVERYONE>> }

\* --------------------------------------------------------------- rationals
Abs(x) == IF x < 0 THEN -x ELSE x

RECURSIVE GCD(_, _)
GCD(a, b) == IF b = 0 THEN a ELSE GCD(b, a % b)

Norm(n, d) ==
  IF n = 0 THEN <<0, 1>>
  ELSE LET s == IF d < 0 THEN -1 ELSE 1
           g == GCD(Abs(n), Abs(d))
       IN  <<(s * n) \div g, (s * d) \div g>>

Rat(c)     == <<c, 1>>
RAdd(a, b) == Norm(a[1] * b[2] + b[1] * a[2], a[2] * b[2])
RSub(a, b) == Norm(a[1] * b[2] - b[1] * a[2], a[2] * b[2])
RMul(a, b) == Norm(a[1] * b[1], a[2] * b[2])
RDiv(a, b) == Norm(a[1] * b[2], a[2] * b[1])
RLeq(a, b) == a[1] * b[2] <= b[1] * a[2]
RAbs(a)    == <<Abs(a[1]), a[2]>>
RIsInt(a)  == a[2] = 1

RECURSIVE RSum(_)
RSum(s) == IF s = <<>> THEN Rat(0) ELSE RAdd(Head(s), RSum(Tail(s)))

\* round(x, 2): the nearest whole cent; a tie goes the way `up` says
Round2(x, up) ==
  LET q == x[1] \div x[2]
      r == x[1] % x[2]
  IN  IF 2 * r < x[2] THEN q
      ELSE IF 2 * r > x[2] THEN q + 1
      ELSE IF up THEN q + 1 ELSE q

\* -------------------------------------------------------------- formatting
RECURSIVE Digits(_)
Digits(n) == IF n < 10 THEN 1 ELSE 1 + Digits(n \div 10)

\* len(f"{x:.2f}") of a value of c cents
FixedLen(c) ==
  (IF c < 0 THEN 1 ELSE 0) + Digits(Abs(c) \div 100) + 3

\* len(f"{x:,.2f}") of a value of c cents
CommaLen(c) ==
  FixedLen(c) + ((Digits(Abs(c) \div 100) - 1) \div 3)

Tok(t, cents, len, id) == [t |-> t, cents |-> cents, len |-> len, id |-> id]

TokLen(k) ==
  CASE k.t = "txt"      -> k.len
    [] k.t = "name"     -> k.len
    [] k.t = "nl"       -> 1
    [] k.t = "line"     -> 1 + 1 + CommaLen(k.cents) + 2 + k.len
    [] k.t = "everyone" -> 1 + FixedLen(k.cents) + 16

RECURSIVE TextLen(_)
TextLen(s) == IF s = <<>> THEN 0 ELSE TokLen(Head(s)) + TextLen(Tail(s))

\* ------------------------------------------------ insertion-ordered dicts
\* A Python dict is a sequence of entries [k, v] in insertion order.
DictKeys(d)   == { d[n].k : n \in 1..Len(d) }
DictHas(d, k) == k \in DictKeys(d)
DictIdx(d, k) == CHOOSE n \in 1..Len(d) : d[n].k = k
DictGet(d, k) == d[DictIdx(d, k)].v
DictSet(d, k, v) ==
  IF DictHas(d, k) THEN [d EXCEPT ![DictIdx(d, k)].v = v]
  ELSE Append(d, [k |-> k, v |-> v])
DictPop(d, k) == SelectSeq(d, LAMBDA e : e.k # k)

\* final_charges[k].append(b) on a defaultdict(list)
ListAppend(d, k, b) ==
  DictSet(d, k, Append(IF DictHas(d, k) THEN DictGet(d, k) ELSE <<>>, b))

\* ------------------------------------------------------------------- state
VARIABLES
  receipt,         \* the Receipt handed to batch_receipt
  itemized,        \* the itemized flag
  dry_run,         \* the dry_run argument of Receipt.charge
  tieUp,           \* direction in which a half-cent is rounded
  pc,              \* position in main / batch_receipt
  pos,             \* position of the two nested fan-out loops
  participants,    \* dict participant -> (amount, notes)
  final_charges,   \* dict participant -> list of (amount, notes)
  ratio,           \* receipt.total / subtotal
  everyone_amount, \* the Everyone share
  new_items,       \* the Items built so far
  result,          \* <<>> or <<the Receipt returned>>
  calls,           \* what the ChargeSink has been handed, in order
  pass,            \* 1: batch_receipt(R), 2: batch_receipt(batch_receipt(R))
  first,           \* <<>> or <<R, R'>> once R' is batched again
  closeLog         \* history: the bundles in the order they were closed

vars == <<receipt, itemized, dry_run, tieUp, pc, pos, participants,
          final_charges, ratio, everyone_amount, new_items, result, calls, pass, first, closeLog>>

Item(amount, parts, note) ==
  [amount |-> amount, participants |-> parts, note |-> note]

Receipt(name, items, total) ==
  [name |-> name, items |-> items, total |-> total]

Bundle(amount, notes) == [amount |-> amount, notes |-> notes]

EmptyBundle == Bundle(Rat(0), <<>>)

\* price_per with round(x) in place of round(x, 2): whole dollars
PricePerWholeDollars(item, up) ==
  100 * Round2(RDiv(item.amount, Rat(100 * Len(item.participants))), up)

\* Item.price_per, in cents
PricePer(item, up) ==
  Round2(RDiv(item.amount, Rat(Len(item.participants))), up)

Subtotal(r) == RSum([n \in 1..Len(r.items) |-> r.items[n].amount])

\* the (item, participant) positions the nested loops visit, in order
RECURSIVE Pairs(_, _)
Pairs(items, i) ==
  IF i > Len(items) THEN <<>>
  ELSE [j \in 1..Len(items[i].participants) |-> <<i, j>>]
         \o Pairs(items, i + 1)

\* the Items of an input receipt: every participant list with a short and
\* with a long note, and with an amount that does or does not halve evenly
InputItems ==
  { Item(Rat(a), p, <<Tok("txt", 0, ShortNote, 0)>>) :
      a \in Amounts, p \in PartLists }
  \cup
  { Item(Rat(100), p, <<Tok("txt", 0, LongNote, 0)>>) : p \in PartLists }

InputItemSeqs == UNION { [1..n -> InputItems] : n \in 0..MaxItems }

Init ==
  /\ \E items \in InputItemSeqs, tip \in {0, TipCents} :
       receipt = Receipt(NameLen, items,
                   RAdd(RSum([n \in 1..Len(items) |-> items[n].amount]),
                        Rat(tip)))
  /\ itemized \in BOOLEAN
  /\ dry_run = TRUE
  /\ tieUp \in BOOLEAN
  /\ pc = "start"
  /\ pos = 1
  /\ participants = <<>>
  /\ final_charges = <<>>
  /\ ratio = Rat(0)
  /\ everyone_amount = Rat(0)
  /\ new_items = <<>>
  /\ result = <<>>
  /\ calls = <<>>
  /\ pass = 1
  /\ first = <<>>
  /\ closeLog = <<>>

\* ----------------------------------------------------------- batch_receipt
\* lines 88-91: the two dicts, subtotal and ratio (ZeroDivisionError if 0)
Start ==
  /\ pc = "start"
  /\ participants' = <<>>
  /\ final_charges' = <<>>
  /\ pos' = 1
  /\ IF Subtotal(receipt)[1] = 0
       THEN /\ pc' = "error"
            /\ ratio' = ratio
       ELSE /\ pc' = "fanout"
            /\ ratio' = RDiv(receipt.total, Subtotal(receipt))
  /\ UNCHANGED <<receipt, itemized, dry_run, tieUp, everyone_amount,
                 new_items, result, calls, pass, first, closeLog>>

\* the text f'\n${price_per:,.2f}: {item.note}' of line 99
NewNote(item, i, price_per, up) ==
  <<Tok("line", Round2(price_per, up), TextLen(item.note), i)>>

\* lines 100-102: does the line no longer fit the running notes?
Overflows(notes, new_note) ==
  TextLen(notes) + TextLen(new_note) + 1 > NoteCap

\* lines 93-104: one iteration of the inner loop
FanOut ==
  /\ pc = "fanout"
  /\ pos <= Len(Pairs(receipt.items, 1))
  /\ LET ij          == Pairs(receipt.items, 1)[pos]
         item        == receipt.items[ij[1]]
         participant == item.participants[ij[2]]
         parts1      == IF DictHas(participants, participant)
                          THEN participants
                          ELSE DictSet(participants, participant, EmptyBundle)
         cur         == DictGet(parts1, participant)
         price_per   == RMul(Rat(PricePer(item, tieUp)), ratio)
         new_note    == NewNote(item, ij[1], price_per, tieUp)
         over        == Overflows(cur.notes, new_note)
         acc         == IF over THEN EmptyBundle ELSE cur
     IN  /\ final_charges' =
              IF over THEN ListAppend(final_charges, participant, cur)
              ELSE final_charges
         /\ closeLog' =
              IF over THEN Append(closeLog, [p |-> participant, b |-> cur])
              ELSE closeLog
         /\ participants' =
              DictSet(parts1, participant,
                      Bundle(RAdd(acc.amount, price_per),
                             acc.notes \o new_note))
  /\ pos' = pos + 1
  /\ UNCHANGED <<receipt, itemized, dry_run, tieUp, pc, ratio,
                 everyone_amount, new_items, result, calls, pass,
                 first>>

\* the flush loop walking the accumulators from the last to the first
RECURSIVE FlushAllReversed(_, _, _)
FlushAllReversed(parts, n, fc) ==
  IF n > Len(parts) THEN fc
  ELSE FlushAllReversed(parts, n + 1,
         ListAppend(fc, parts[Len(parts) + 1 - n].k,
                        parts[Len(parts) + 1 - n].v))

\* lines 105-106: every remaining accumulator goes to its bundle list
RECURSIVE FlushAll(_, _, _)
FlushAll(parts, n, fc) ==
  IF n > Len(parts) THEN fc
  ELSE FlushAll(parts, n + 1, ListAppend(fc, parts[n].k, parts[n].v))

Flush ==
  /\ pc = "fanout"
  /\ pos > Len(Pairs(receipt.items, 1))
  /\ final_charges' = FlushAll(participants, 1, final_charges)
  /\ closeLog' = closeLog \o [n \in 1..Len(participants) |->
                               [p |-> participants[n].k,
                                b |-> participants[n].v]]
  /\ pc' = "everyone"
  /\ UNCHANGED <<receipt, itemized, dry_run, tieUp, pos, participants, ratio,
                 everyone_amount, new_items, result, calls, pass,
                 first>>

\* sum([e[0] for e in everyone_charge])
BundleSum(bs) == RSum([n \in 1..Len(bs) |-> bs[n].amount])

\* lines 108-112: the Everyone share; dividing by len(final_charges) = 0
\* raises ZeroDivisionError
EveryoneSplit ==
  /\ pc = "everyone"
  /\ IF DictHas(final_charges, EVERYONE)
       THEN LET everyone_charge == DictGet(final_charges, EVERYONE)
                rest            == DictPop(final_charges, EVERYONE)
            IN  /\ final_charges' = rest
                /\ IF Len(rest) = 0
                     THEN /\ pc' = "error"
                          /\ everyone_amount' = everyone_amount
                     ELSE /\ pc' = "finalize"
                          /\ everyone_amount' =
                               RDiv(BundleSum(everyone_charge),
                                    Rat(Len(rest)))
       ELSE /\ final_charges' = final_charges
            /\ everyone_amount' = Rat(0)
            /\ pc' = "finalize"
  /\ UNCHANGED <<receipt, itemized, dry_run, tieUp, pos, participants, ratio,
                 new_items, result, calls, pass, first, closeLog>>

\* the finalize step without its else branch: the detail is always kept
FinalItemKeepDetail(participant, b, share, name, isItemized, up) ==
  [amount       |-> RAdd(b.amount, share),
   participants |-> <<participant>>,
   note         |-> <<Tok("name", 0, name, 0), Tok("nl", 0, 0, 0)>>
                      \o b.notes
                      \o <<Tok("nl", 0, 0, 0),
                           Tok("everyone", Round2(share, up), 0, 0)>>]

\* lines 116-122: the Item made of one bundle
FinalItem(participant, b, share, name, isItemized, up) ==
  LET amount == RAdd(b.amount, share)
      notes1 == b.notes \o <<Tok("nl", 0, 0, 0),
                             Tok("everyone", Round2(share, up), 0, 0)>>
      notes  == IF isItemized
                  THEN <<Tok("name", 0, name, 0), Tok("nl", 0, 0, 0)>>
                         \o notes1
                  ELSE <<Tok("name", 0, name, 0)>>
  IN  Item(amount, <<participant>>, notes)

\* lines 114-122: both loops
RECURSIVE FinalItems(_, _, _, _, _, _)
FinalItems(fc, n, share, name, isItemized, up) ==
  IF n > Len(fc) THEN <<>>
  ELSE [m \in 1..Len(fc[n].v) |->
          FinalItem(fc[n].k, fc[n].v[m], share, name, isItemized, up)]
         \o FinalItems(fc, n + 1, share, name, isItemized, up)

\* lines 113-123: the Items of all bundles, and the Receipt returned
Finalize ==
  /\ pc = "finalize"
  /\ new_items' = FinalItems(final_charges, 1, everyone_amount,
                             receipt.name, itemized, tieUp)
  /\ result' = <<Receipt(receipt.name, new_items', receipt.total)>>
  /\ pc' = "returned"
  /\ UNCHANGED <<receipt, itemized, dry_run, tieUp, pos, participants,
                 final_charges, ratio, everyone_amount, calls, pass, first,
                 closeLog>>

\* -------------------------------------------------------------- ChargeSink
\* Item.charge without the test for Me
RECURSIVE ItemChargeAll(_, _, _, _)
ItemChargeAll(item, j, dry, up) ==
  IF j > Len(item.participants) THEN <<>>
  ELSE <<[mode        |-> IF dry THEN "print" ELSE "request",
          participant |-> item.participants[j],
          cents       |-> PricePer(item, up),
          note        |-> item.note]>>
         \o ItemChargeAll(item, j + 1, dry, up)

\* Item.charge that hands nothing to the sink in dry-run mode
RECURSIVE ItemChargeQuietDryRun(_, _, _, _)
ItemChargeQuietDryRun(item, j, dry, up) ==
  IF j > Len(item.participants) \/ dry THEN <<>>
  ELSE (IF item.participants[j] = ME THEN <<>>
        ELSE <<[mode        |-> "request",
                participant |-> item.participants[j],
                cents       |-> PricePer(item, up),
                note        |-> item.note]>>)
         \o ItemChargeQuietDryRun(item, j + 1, dry, up)

\* Item.charge, lines 28-35: the calls one Item makes, Me skipped
RECURSIVE ItemCharge(_, _, _, _)
ItemCharge(item, j, dry, up) ==
  IF j > Len(item.participants) THEN <<>>
  ELSE (IF item.participants[j] = ME THEN <<>>
        ELSE <<[mode        |-> IF dry THEN "print" ELSE "request",
                participant |-> item.participants[j],
                cents       |-> PricePer(item, up),
                note        |-> item.note]>>)
         \o ItemCharge(item, j + 1, dry, up)

\* Receipt.charge, lines 66-68: the calls of all Items, in order
RECURSIVE ReceiptCharge(_, _, _, _)
ReceiptCharge(r, n, dry, up) ==
  IF n > Len(r.items) THEN <<>>
  ELSE ItemCharge(r.items[n], 1, dry, up) \o ReceiptCharge(r, n + 1, dry, up)

\* main, line 151: receipt.charge(client, dry_run=not execute)
Charge ==
  /\ pc = "returned"
  /\ pass = 1
  /\ dry_run' \in BOOLEAN
  /\ calls' = calls \o ReceiptCharge(result[1], 1, dry_run', tieUp)
  /\ pc' = "charged"
  /\ UNCHANGED <<receipt, itemized, tieUp, pos, participants, final_charges,
                 ratio, everyone_amount, new_items, result, pass, first,
                 closeLog>>

\* batch_receipt applied to the Receipt it returned
Rebatch ==
  /\ pc = "returned"
  /\ pass = 1
  /\ first' = <<receipt, result[1]>>
  /\ receipt' = result[1]
  /\ pass' = 2
  /\ pc' = "start"
  /\ pos' = 1
  /\ participants' = <<>>
  /\ final_charges' = <<>>
  /\ ratio' = Rat(0)
  /\ everyone_amount' = Rat(0)
  /\ new_items' = <<>>
  /\ result' = <<>>
  /\ closeLog' = <<>>
  /\ UNCHANGED <<itemized, dry_run, tieUp, calls>>

Next ==
  \/ Start
  \/ FanOut
  \/ Flush
  \/ EveryoneSplit
  \/ Finalize
  \/ Charge
  \/ Rebatch

Spec == Init /\ [][Next]_vars

\* ================================================================ properties
\* batch_receipt(R) has just returned R'; batch_receipt(R') has just returned
Returned1 == pass = 1 /\ pc = "returned"

Returned2 == pass = 2 /\ pc = "returned"

Out == result[1].items

Cent == Rat(1)

\* the participants of the fan-out of receipt r, in first-seen order
PairPart(r, n) ==
  LET ij == Pairs(r.items, 1)[n] IN r.items[ij[1]].participants[ij[2]]

PairItem(r, n) == r.items[Pairs(r.items, 1)[n][1]]

NPairs(r) == Len(Pairs(r.items, 1))

Listed(r) == { PairPart(r, n) : n \in 1..NPairs(r) }

FirstSeen(r, p) == CHOOSE n \in 1..NPairs(r) :
  /\ PairPart(r, n) = p
  /\ \A m \in 1..(n - 1) : PairPart(r, m) # p

\* what participant p owes for the items that list p: price_per * ratio
Own(r, p, up) ==
  RSum([n \in 1..NPairs(r) |->
          IF PairPart(r, n) = p
            THEN RMul(Rat(PricePer(PairItem(r, n), up)),
                      RDiv(r.total, Subtotal(r)))
            ELSE Rat(0)])

\* the sum of the amounts of the emitted Items of participant p
Emitted(items, p) ==
  RSum([n \in 1..Len(items) |->
          IF items[n].participants = <<p>> THEN items[n].amount ELSE Rat(0)])

RECURSIVE RSumOver(_, _)
RSumOver(S, f) ==
  IF S = {} THEN Rat(0)
  ELSE LET x == CHOOSE y \in S : TRUE
       IN  RAdd(f[x], RSumOver(S \ {x}, f))

\* ---------------------------------------------------------------------- C1
\* every Item of r has a participant
AllListed(r) == \A n \in 1..Len(r.items) : r.items[n].participants # <<>>

\* every amount of r divides evenly among the Item's participants
DividesEvenly(r, up) ==
  \A n \in 1..Len(r.items) :
    Rat(PricePer(r.items[n], up) * Len(r.items[n].participants))
      = r.items[n].amount

\* C1 (as claimed, and already for receipts whose Items all have a
\* participant and an amount that divides evenly among them): for a receipt
\* with nonzero subtotal the amounts of the Items batch_receipt returns add
\* up to receipt.total, within one cent per emitted Item.
C1_SumWithinEpsilon ==
  (Returned1 /\ AllListed(receipt) /\ DividesEvenly(receipt, tieUp))
    => RLeq(RAbs(RSub(RSum([n \in 1..Len(Out) |-> Out[n].amount]),
                      receipt.total)),
            Rat(Len(Out)))

C3_NoteWithinCap ==
  (/\ Returned1
   /\ \A n \in 1..Len(closeLog) : \A m \in 1..Len(closeLog[n].b.notes) :
        TokLen(closeLog[n].b.notes[m]) <= NoteCap)
    => \A n \in 1..Len(Out) : TextLen(Out[n].note) <= NoteCap

RECURSIVE GroupLog(_)
GroupLog(log) ==
  IF log = <<>> THEN <<>>
  ELSE LET p == Head(log).p
       IN  (IF p = EVERYONE THEN <<>>
            ELSE SelectSeq(log, LAMBDA e : e.p = p))
             \o GroupLog(SelectSeq(log, LAMBDA e : e.p # p))

Charged(r) == Listed(r) \ {ME, EVERYONE}

\* what the emitted Items of p charge beyond p's own items
Excess(r, items, p, up) == RSub(Emitted(items, p), Own(r, p, up))

\* C5 (as claimed): with Everyone items, every participant that is neither
\* Me nor Everyone is charged the same share on top of their own items, the
\* share is within one cent of everyone_total / number of such participants,
\* and the shares add up to everyone_total.
C5_EvenEveryoneSplit ==
  (Returned1 /\ EVERYONE \in Listed(receipt)) =>
    LET everyone_total == Own(receipt, EVERYONE, tieUp)
        share == [p \in Charged(receipt) |->
                    Excess(receipt, Out, p, tieUp)]
    IN  /\ \A p, q \in Charged(receipt) : share[p] = share[q]
        /\ \A p \in Charged(receipt) :
             RLeq(RAbs(RSub(share[p],
                            RDiv(everyone_total,
                                 Rat(Cardinality(Charged(receipt)))))),
                  Cent)
        /\ RSumOver(Charged(receipt), share) = everyone_total

\* ---------------------------------------------------------------------- C6
\* C6 (as claimed): a receipt with an Item whose participant list is empty
\* makes batch_receipt fail: no bundle is finalized, no Receipt is returned.
C6_EmptyParticipantsAbort ==
  (pass = 1 /\ \E n \in 1..Len(receipt.items) :
                  receipt.items[n].participants = <<>>)
    => (new_items = <<>> /\ result = <<>> /\ pc # "finalize")

\* ---------------------------------------------------------------------- C7
OnePerParticipant(r) ==
  /\ \A n \in 1..Len(r.items) :
       /\ Len(r.items[n].participants) = 1
       /\ r.items[n].participants[1] # EVERYONE
  /\ \A n, m \in 1..Len(r.items) :
       r.items[n].participants = r.items[m].participants => n = m

\* batch_receipt(R') emits one Item per participant of R', with R's amount
SameAmounts(r, items) ==
  \A n \in 1..Len(r.items) :
    LET mine == SelectSeq(items, LAMBDA it :
                            it.participants = r.items[n].participants)
    IN  /\ Len(mine) = 1
        /\ mine[1].amount = r.items[n].amount

\* the line the fan-out builds from each note of r fits the cap
LinesFit(r, up) ==
  \A n \in 1..Len(r.items) :
    TextLen(NewNote(r.items[n], n, r.items[n].amount, up)) + 1 <= NoteCap

\* C7 (as claimed, and already for receipts R whose Items all have a
\* participant and notes of R' whose lines fit the cap): if
\* R' = batch_receipt(R) has one Item per participant, batch_receipt(R')
\* emits one Item per participant with the amount of R'.
C7_FixedPoint ==
  (/\ Returned2
   /\ AllListed(first[1])
   /\ OnePerParticipant(receipt)
   /\ LinesFit(receipt, tieUp))
    => SameAmounts(receipt, Out)

\* C7 (amended): the same, provided the amounts of R' are whole cents, add
\* up to the receipt total, and the line built from each note of R' fits
\* the 250-character cap.
C7_FixedPointWholeCents ==
  (/\ Returned2
   /\ OnePerParticipant(receipt)
   /\ \A n \in 1..Len(receipt.items) : RIsInt(receipt.items[n].amount)
   /\ Subtotal(receipt) = receipt.total
   /\ LinesFit(receipt, tieUp))
    => SameAmounts(receipt, Out)

C7_Witness ==
  /\ Returned2
  /\ OnePerParticipant(receipt)
  /\ Len(receipt.items) >= 2
  /\ \A n \in 1..Len(receipt.items) : RIsInt(receipt.items[n].amount)
  /\ Subtotal(receipt) = receipt.total
  /\ first[1].total # Subtotal(first[1])
  /\ SameAmounts(receipt, Out)
  /\ Len(Out) = Len(receipt.items)

NameText == <<Tok("name", 0, receipt.name, 0)>>

\* the lines the fan-out of receipt r builds for participant p, in order
LinesOf(r, p, up) ==
  LET pairs == Pairs(r.items, 1)
      ratio0 == RDiv(r.total, Subtotal(r))
      mine  == SelectSeq(pairs, LAMBDA ij : r.items[ij[1]].participants[ij[2]] = p)
  IN  [n \in 1..Len(mine) |->
         Tok("line",
             Round2(RMul(Rat(PricePer(r.items[mine[n][1]], up)), ratio0), up),
             TextLen(r.items[mine[n][1]].note),
             mine[n][1])]

RECURSIVE Flatten(_)
Flatten(ss) == IF ss = <<>> THEN <<>> ELSE Head(ss) \o Flatten(Tail(ss))

\* C9: with itemized = false every emitted note is exactly receipt.name;
\* with itemized = true it is receipt.name, a newline, the per-item lines of
\* the bundle and a final "$<everyone_share>: Everyone split" line, and the
\* lines of a participant's notes, taken together in emission order, are
\* the lines the fan-out built for that participant, in the order of the
\* receipt.
C9_Notes ==
  pc = "returned" =>
    /\ \A n \in 1..Len(Out) :
         LET note == Out[n].note
         IN  IF ~itemized THEN note = NameText
             ELSE /\ Len(note) >= 4
                  /\ SubSeq(note, 1, 2) = NameText \o <<Tok("nl", 0, 0, 0)>>
                  /\ note[Len(note) - 1] = Tok("nl", 0, 0, 0)
                  /\ note[Len(note)] =
                       Tok("everyone", Round2(everyone_amount, tieUp), 0, 0)
    /\ itemized =>
         \A p \in Listed(receipt) \ {EVERYONE} :
           LET mine == SelectSeq(Out, LAMBDA it : it.participants = <<p>>)
           IN  Flatten([n \in 1..Len(mine) |->
                          SubSeq(mine[n].note, 3, Len(mine[n].note) - 2)])
                 = LinesOf(receipt, p, tieUp)

C9_Witness ==
  /\ Returned1
  /\ itemized
  /\ everyone_amount # Rat(0)
  /\ \E n \in 1..Len(Out) : Len(Out[n].note) >= 6

\* --------------------------------------------------------------------- C10
\* C10 (as claimed): a receipt with nonzero subtotal whose Items all have a
\* participant never makes batch_receipt fail.
C10_NeverFails ==
  (/\ pass = 1
   /\ Subtotal(receipt) # Rat(0)
   /\ \A n \in 1..Len(receipt.items) :
        receipt.items[n].participants # <<>>)
    => pc # "error"

====
